---- MODULE Spec2Model ----
(***************************************************************************)
(* Model of digitalocean/resource_digitalocean_firewall.go: the firewall   *)
(* resource's CRUD handlers (Create, Read, Update, Delete, Exists), the    *)
(* request builder, and the rule / list reconcilers that merge the rules   *)
(* returned by the API into the locally stored, user-ordered rule lists.   *)
(*                                                                         *)
(* Go slices are sequences; a nil slice and an empty slice are both <<>>.  *)
(* Go maps with string keys (map[string]interface{}) are records.          *)
(* Iteration over a Go map (and over a schema.Set's remaining members) has  *)
(* no order the source controls, so every operator that appends "the       *)
(* remaining" members returns the SET of lists the build can produce.      *)
(***************************************************************************)
EXTENDS Integers, Sequences, FiniteSets, TLC

VARIABLES
    d,      \* *schema.ResourceData: the resource identity and its fields
    ret,    \* what the last CRUD handler returned (and what the API answered)
    args,   \* arguments handed to a reconciler called on its own
    out,    \* the list that reconciler returned
    pc      \* which reconciler (if any) has run

vars == <<d, ret, args, out, pc>>

----------------------------------------------------------------------------
(* Bounds of the checked instances.                                         *)

\* longest rule list (local or remote) handed to the rule reconcilers
MaxRules == 2
\* longest scalar list (local or remote) handed to the list reconcilers
MaxList == 3

----------------------------------------------------------------------------
(* Generic helpers.                                                         *)

Range(s) == {s[i] : i \in 1..Len(s)}

SeqsUpTo(S, n) == UNION {[1..k -> S] : k \in 0..n}

\* every order in which the members of S can be enumerated
Orderings(S) ==
    {o \in [1..Cardinality(S) -> S] : \A i, j \in 1..Cardinality(S) : i # j => o[i] # o[j]}

\* strings.Contains over a text held as a sequence of words
Contains(text, sub) ==
    \E i \in 1..(Len(text) + 1) :
        /\ i + Len(sub) - 1 <= Len(text)
        /\ SubSeq(text, i, i + Len(sub) - 1) = sub

----------------------------------------------------------------------------
(* Input domains.                                                           *)

Protocols == {"tcp", "udp"}
PortRanges == {"0", "all"}
\* the (protocol, port range) keys of the rules drawn
Keys == (Protocols \X PortRanges) \ {<<"udp", "all">>}

DropletIDValues == {1, 2, 3}
StringValues == {"a", "b", "c"}

\* the party lists (sources / destinations) a drawn rule can carry
PartyA ==
    [DropletIDs |-> <<1, 2>>, Tags |-> <<"a", "b">>,
     Addresses |-> <<"a">>, LoadBalancerUIDs |-> <<"b", "c">>]

PartyB ==
    [DropletIDs |-> <<3, 3>>, Tags |-> <<"b", "a">>,
     Addresses |-> <<"b", "a">>, LoadBalancerUIDs |-> <<"a", "a">>]

Parties == {PartyA, PartyB}

----------------------------------------------------------------------------
(* hashcode.String and the rule fingerprint.                                *)

\* hashcode.String(s): the CRC-32 (IEEE) checksum of s, as computed for the
\* strings of the input domains. int is 64 bits wide, so the checksum is
\* returned as it is (never negative); it is written here as the pair
\* <<checksum \div 65536, checksum % 65536>> of its 16-bit halves.
hashcode_String(s) ==
    CASE s = "tcp-0"   -> <<45537, 60396>>
      [] s = "tcp-all" -> <<25848, 26961>>
      [] s = "udp-0"   -> <<4438, 64229>>
      [] s = "udp-all" -> <<57226, 21085>>
      [] s = "a"       -> <<59575, 48707>>
      [] s = "b"       -> <<29118, 61433>>
      [] s = "c"       -> <<1721, 57199>>

\* hashFirewallRule with the port range left out of the hashed string
hashFirewallRuleProtocolOnly(protocol, portRange) ==
    hashcode_String(protocol \o "-" \o "0")

hashFirewallRule(protocol, portRange) ==
    hashcode_String(protocol \o "-" \o portRange)

\* schema.HashString
HashString(v) == hashcode_String(v)

----------------------------------------------------------------------------
(* The list reconcilers (matchFirewallIntLists, matchFirewallStringLists).  *)

\* the loop "Add only the item which exists in the remote list" of
\* matchFirewallIntLists: the state after the local items ls have been walked
RECURSIVE IntListLoop(_, _, _)
IntListLoop(ls, remoteSet, matchedList) ==
    IF ls = <<>> THEN [matchedList |-> matchedList, remoteSet |-> remoteSet]
    ELSE LET i == Head(ls) IN
         IF i \notin remoteSet
         THEN IntListLoop(Tail(ls), remoteSet, matchedList)
         ELSE IntListLoop(Tail(ls), remoteSet \ {i}, Append(matchedList, i))

\* matchFirewallIntLists without delete(remoteSet, i): a matched item is
\* still in the set when the remaining items are appended
matchFirewallIntListsNoDelete(key, local, remote) ==
    LET remoteSet == Range(remote[key])
        st == IntListLoop(local[key], remoteSet, <<>>)
    IN  {st.matchedList \o t : t \in Orderings(remoteSet)}

\* matchFirewallIntLists(key, local, remote): every list the call can return
\* (the remaining remote items are appended in Go map iteration order)
matchFirewallIntLists(key, local, remote) ==
    LET remoteSet == Range(remote[key])
        st == IntListLoop(local[key], remoteSet, <<>>)
    IN  {st.matchedList \o t : t \in Orderings(st.remoteSet)}

\* schema.NewSet(schema.HashString, remoteList): the set is a map from the
\* hash code of an item to the item; modelled by its codes and a lookup
NewSet(remoteList) == {HashString(s) : s \in Range(remoteList)}

SetItem(remoteList, code) == CHOOSE s \in Range(remoteList) : HashString(s) = code

\* the loop "Add only the item which exists in the remote list" of
\* matchFirewallStringLists
RECURSIVE StringListLoop(_, _, _)
StringListLoop(ls, remoteSet, matchedList) ==
    IF ls = <<>> THEN [matchedList |-> matchedList, remoteSet |-> remoteSet]
    ELSE LET s == Head(ls) IN
         IF HashString(s) \notin remoteSet
         THEN StringListLoop(Tail(ls), remoteSet, matchedList)
         ELSE StringListLoop(Tail(ls), remoteSet \ {HashString(s)}, Append(matchedList, s))

\* matchFirewallStringLists without remoteSet.Remove(s)
matchFirewallStringListsNoRemove(key, local, remote) ==
    LET remoteList == remote[key]
        st == StringListLoop(local[key], NewSet(remoteList), <<>>)
    IN  {st.matchedList \o [i \in 1..Len(t) |-> SetItem(remoteList, t[i])] :
            t \in Orderings(NewSet(remoteList))}

\* matchFirewallStringLists(key, local, remote): every list the call can
\* return (remoteSet.List() enumerates the remaining items in an order the
\* set implementation chooses)
matchFirewallStringLists(key, local, remote) ==
    LET remoteList == remote[key]
        st == StringListLoop(local[key], NewSet(remoteList), <<>>)
    IN  {st.matchedList \o [i \in 1..Len(t) |-> SetItem(remoteList, t[i])] :
            t \in Orderings(st.remoteSet)}

----------------------------------------------------------------------------
(* The rule reconcilers (flattenFirewallInboundRules / ...OutboundRules).   *)

\* delete(remoteMap, hash) left out
MapDeleteNothing(m, h) == m

\* a map with the entry for key h deleted (Go's delete(remoteMap, hash))
MapDelete(m, h) == [k \in (DOMAIN m) \ {h} |-> m[k]]

\* remoteMap[hash] = rawRule
MapPut(m, h, v) == [k \in (DOMAIN m) \cup {h} |-> IF k = h THEN v ELSE m[k]]

EmptyMap == [k \in {} |-> <<>>]

\* the rules left in remoteMap, in every order `range remoteMap` can yield
MapValuesInAnyOrder(m) ==
    {[i \in 1..Len(o) |-> m[o[i]]] : o \in Orderings(DOMAIN m)}

\* rawRule built from a godo.InboundRule
InboundRawRule(rule) ==
    [protocol                  |-> rule.Protocol,
     port_range                |-> rule.PortRange,
     source_droplet_ids        |-> rule.Sources.DropletIDs,
     source_tags               |-> rule.Sources.Tags,
     source_addresses          |-> rule.Sources.Addresses,
     source_load_balancer_uids |-> rule.Sources.LoadBalancerUIDs]

\* the first loop of flattenFirewallInboundRules: remote and remoteMap
RECURSIVE InboundPrepare(_, _, _)
InboundPrepare(rules, remote, remoteMap) ==
    IF rules = <<>> THEN [remote |-> remote, remoteMap |-> remoteMap]
    ELSE LET rule == Head(rules)
             rawRule == InboundRawRule(rule)
             hash == hashFirewallRule(rule.Protocol, rule.PortRange)
         IN  InboundPrepare(Tail(rules), Append(remote, rawRule),
                            MapPut(remoteMap, hash, rawRule))

\* a matched local inbound rule with its four source lists reconciled
InboundMatchLists(local, remote) ==
    {[local EXCEPT !.source_droplet_ids = ids,
                   !.source_tags = tags,
                   !.source_addresses = addrs,
                   !.source_load_balancer_uids = lbs] :
        ids \in matchFirewallIntLists("source_droplet_ids", local, remote),
        tags \in matchFirewallStringLists("source_tags", local, remote),
        addrs \in matchFirewallStringLists("source_addresses", local, remote),
        lbs \in matchFirewallStringLists("source_load_balancer_uids", local, remote)}

\* the loop of flattenFirewallInboundRules without its `continue`: a local
\* rule with no entry in remoteMap is kept
RECURSIVE InboundMatchLoopKeepsLocal(_, _)
InboundMatchLoopKeepsLocal(local, remoteMap) ==
    IF local = <<>> THEN MapValuesInAnyOrder(remoteMap)
    ELSE LET rawRule == Head(local)
             hash == hashFirewallRule(rawRule.protocol, rawRule.port_range)
         IN  IF hash \notin DOMAIN remoteMap
             THEN {<<rawRule>> \o rest :
                      rest \in InboundMatchLoopKeepsLocal(Tail(local), remoteMap)}
             ELSE {<<m>> \o rest :
                      m \in InboundMatchLists(rawRule, remoteMap[hash]),
                      rest \in InboundMatchLoopKeepsLocal(Tail(local),
                                                          MapDelete(remoteMap, hash))}

\* the loop over the local rules of flattenFirewallInboundRules, followed by
\* "Append the remaining remote rules": every value of match it can end with
RECURSIVE InboundMatchLoop(_, _)
InboundMatchLoop(local, remoteMap) ==
    IF local = <<>> THEN MapValuesInAnyOrder(remoteMap)
    ELSE LET rawRule == Head(local)
             hash == hashFirewallRule(rawRule.protocol, rawRule.port_range)
         IN  IF hash \notin DOMAIN remoteMap
             THEN InboundMatchLoop(Tail(local), remoteMap)
             ELSE {<<m>> \o rest :
                      m \in InboundMatchLists(rawRule, remoteMap[hash]),
                      rest \in InboundMatchLoop(Tail(local), MapDelete(remoteMap, hash))}

\* flattenFirewallInboundRules(d, rules): every list the call can return
flattenFirewallInboundRules(rd, rules) ==
    IF rules = <<>> THEN {<<>>}
    ELSE LET local == rd.inbound_rule
             prep == InboundPrepare(rules, <<>>, EmptyMap)
         IN  IF Len(prep.remote) = 0 \/ Len(local) = 0
             THEN {prep.remote}
             ELSE InboundMatchLoop(local, prep.remoteMap)

\* rawRule built from a godo.OutboundRule
OutboundRawRule(rule) ==
    [protocol                       |-> rule.Protocol,
     port_range                     |-> rule.PortRange,
     destination_droplet_ids        |-> rule.Destinations.DropletIDs,
     destination_tags               |-> rule.Destinations.Tags,
     destination_addresses          |-> rule.Destinations.Addresses,
     destination_load_balancer_uids |-> rule.Destinations.LoadBalancerUIDs]

\* the first loop of flattenFirewallOutboundRules: remote and remoteMap
RECURSIVE OutboundPrepare(_, _, _)
OutboundPrepare(rules, remote, remoteMap) ==
    IF rules = <<>> THEN [remote |-> remote, remoteMap |-> remoteMap]
    ELSE LET rule == Head(rules)
             rawRule == OutboundRawRule(rule)
             hash == hashFirewallRule(rule.Protocol, rule.PortRange)
         IN  OutboundPrepare(Tail(rules), Append(remote, rawRule),
                             MapPut(remoteMap, hash, rawRule))

\* a matched local outbound rule with its four destination lists reconciled
OutboundMatchLists(local, remote) ==
    {[local EXCEPT !.destination_droplet_ids = ids,
                   !.destination_tags = tags,
                   !.destination_addresses = addrs,
                   !.destination_load_balancer_uids = lbs] :
        ids \in matchFirewallIntLists("destination_droplet_ids", local, remote),
        tags \in matchFirewallStringLists("destination_tags", local, remote),
        addrs \in matchFirewallStringLists("destination_addresses", local, remote),
        lbs \in matchFirewallStringLists("destination_load_balancer_uids", local, remote)}

\* the loop over the local rules of flattenFirewallOutboundRules, followed by
\* "Append the remaining remote rules"
RECURSIVE OutboundMatchLoop(_, _)
OutboundMatchLoop(local, remoteMap) ==
    IF local = <<>> THEN MapValuesInAnyOrder(remoteMap)
    ELSE LET rawRule == Head(local)
             hash == hashFirewallRule(rawRule.protocol, rawRule.port_range)
         IN  IF hash \notin DOMAIN remoteMap
             THEN OutboundMatchLoop(Tail(local), remoteMap)
             ELSE {<<m>> \o rest :
                      m \in OutboundMatchLists(rawRule, remoteMap[hash]),
                      rest \in OutboundMatchLoop(Tail(local), MapDelete(remoteMap, hash))}

\* flattenFirewallOutboundRules(d, rules): every list the call can return
flattenFirewallOutboundRules(rd, rules) ==
    LET local == rd.outbound_rule
        prep == OutboundPrepare(rules, <<>>, EmptyMap)
    IN  IF Len(prep.remote) = 0 \/ Len(local) = 0
        THEN {prep.remote}
        ELSE OutboundMatchLoop(local, prep.remoteMap)

----------------------------------------------------------------------------
(* The schema of the resource and the diff-suppression predicate.           *)

\* DiffSuppressFunc of port_range (the same function for both rule kinds)
DiffSuppressFunc(k, oldV, newV, rd) ==
    IF oldV = "0" /\ newV = "all" THEN TRUE ELSE oldV = newV

\* a ResourceData with no identity and every field at its zero value
EmptyData ==
    [id              |-> "",
     status          |-> "",
     created_at      |-> "",
     pending_changes |-> <<>>,
     name            |-> "",
     droplet_ids     |-> <<>>,
     tags            |-> <<>>,
     inbound_rule    |-> <<>>,
     outbound_rule   |-> <<>>]

\* the value of ret while no CRUD handler has returned
NoFirewall ==
    [ID |-> "", Name |-> "", Status |-> "", Created |-> "", PendingChanges |-> <<>>,
     DropletIDs |-> <<>>, Tags |-> <<>>, InboundRules |-> <<>>, OutboundRules |-> <<>>]

NoReturn ==
    [op |-> "none", err |-> <<>>, exists |-> FALSE, created |-> "", status |-> 0,
     getOk |-> FALSE, firewall |-> NoFirewall]

----------------------------------------------------------------------------
(* schema.ResourceData as the handlers use it.                              *)

\* the type each key of the resource's Schema declares
SchemaType(key) ==
    CASE key = "status"          -> "string"
      [] key = "created_at"      -> "string"
      [] key = "pending_changes" -> "list(resource)"
      [] key = "name"            -> "string"
      [] key = "droplet_ids"     -> "list(string)"
      [] key = "tags"            -> "list(string)"
      [] key = "inbound_rule"    -> "list(resource)"
      [] key = "outbound_rule"   -> "list(resource)"

SchemaKeys ==
    {"status", "created_at", "pending_changes", "name", "droplet_ids", "tags",
     "inbound_rule", "outbound_rule"}

\* whether a Go value of static type goType can be written to a field of
\* the given schema type: each element of a list is decoded strictly into
\* the element type, so an int never becomes a string
Assignable(schemaType, goType, value) ==
    CASE schemaType = "string"         -> goType = "string"
      [] schemaType = "list(string)"   -> goType = "[]string" \/ value = <<>>
      [] schemaType = "list(resource)" -> goType = "[]interface{}"

\* whether d.Set(key, value) returns an error: the schema does not declare
\* the key, or the field cannot hold the value
SetFails(key, goType, value) ==
    \/ key \notin SchemaKeys
    \/ ~Assignable(SchemaType(key), goType, value)

\* the data after d.Set(key, value): a Set that fails leaves it as it was
Set(rd, key, goType, value) ==
    IF SetFails(key, goType, value) THEN rd ELSE [rd EXCEPT ![key] = value]

\* d.SetId(v) that stores nothing
SetIdNothing(rd, v) == rd

\* d.SetId(v)
SetId(rd, v) == [rd EXCEPT !.id = v]

----------------------------------------------------------------------------
(* The remote API as the handlers see it: an opaque call that answers.      *)

\* the status the handlers compare a response's StatusCode with
StatusNotFound == 404

\* fmt.Errorf(prefix + ": %s", err); a text is a sequence of words
Errorf(prefix, err) == prefix \o err

\* (*godo.ErrorResponse).Error(): "<method> <url>: <status> <message>"
ErrorResponseText(method, status, message) ==
    <<method, "https://api.digitalocean.com/v2/firewalls:", status>> \o message

\* the errors a call can come back with: the response (<<>> when the call
\* failed before any response arrived) and the error text
ErrNotFoundBare ==
    [resp |-> <<[StatusCode |-> 404]>>, message |-> <<"Not", "Found">>]

ErrNotFoundAPI ==
    [resp |-> <<[StatusCode |-> 404]>>,
     message |-> <<"The", "resource", "you", "were", "accessing", "could", "not", "be", "found.">>]

ErrServer ==
    [resp |-> <<[StatusCode |-> 500]>>, message |-> <<"Server", "Error">>]

StatusText(status) ==
    CASE status = 404 -> "404" [] status = 500 -> "500" [] status = 422 -> "422"

FailedCall(method, e) ==
    [firewall |-> NoFirewall, resp |-> e.resp,
     err |-> ErrorResponseText(method, StatusText(e.resp[1].StatusCode), e.message)]

NoResponse(method) ==
    [firewall |-> NoFirewall, resp |-> <<>>,
     err |-> <<method, "dial", "tcp:", "i/o", "timeout">>]

\* the scalar parts of the firewalls the API returns
FirewallProfiles ==
    { [NoFirewall EXCEPT !.ID = "fw-1", !.Name = "web", !.Status = "waiting",
                         !.Created = "2018-01-01T00:00:00Z",
                         !.PendingChanges =
                             <<[DropletID |-> 1, Removing |-> FALSE, Status |-> "waiting"]>>,
                         !.DropletIDs = <<1, 2>>, !.Tags = <<"a">>],
      [NoFirewall EXCEPT !.ID = "fw-1", !.Name = "db", !.Status = "succeeded",
                         !.Created = "2018-02-02T00:00:00Z"] }

\* the outbound rule with the same key and parties as an inbound rule
AsOutbound(rule) ==
    [Protocol |-> rule.Protocol, PortRange |-> rule.PortRange, Destinations |-> rule.Sources]

\* the inbound rule lists of the firewalls the API returns to the handlers
ServedInboundRules ==
    { <<>>,
      <<[Protocol |-> "tcp", PortRange |-> "all", Sources |-> PartyA]>>,
      <<[Protocol |-> "udp", PortRange |-> "0", Sources |-> PartyA],
        [Protocol |-> "tcp", PortRange |-> "all", Sources |-> PartyB]>> }

Firewalls ==
    {[f EXCEPT !.InboundRules = rs,
               !.OutboundRules = [i \in 1..Len(rs) |-> AsOutbound(rs[i])]] :
        f \in FirewallProfiles, rs \in ServedInboundRules}

\* client.Firewalls.Get(ctx, id)
GetResponses(id) ==
    {[firewall |-> f, resp |-> <<[StatusCode |-> 200]>>, err |-> <<>>] : f \in Firewalls}
    \cup {FailedCall("GET", ErrNotFoundAPI), FailedCall("GET", ErrServer), NoResponse("GET")}

\* client.Firewalls.Create(ctx, opts): only the ID of the firewall is used
CreateResponses(opts) ==
    {[firewall |-> [NoFirewall EXCEPT !.ID = id, !.Name = opts.Name],
      resp |-> <<[StatusCode |-> 202]>>, err |-> <<>>] : id \in {"fw-1", "fw-2"}}
    \cup {FailedCall("POST", ErrServer), NoResponse("POST")}

\* client.Firewalls.Update(ctx, id, opts): only the error is used
UpdateResponses(id, opts) ==
    {[firewall |-> [NoFirewall EXCEPT !.ID = id, !.Name = opts.Name],
      resp |-> <<[StatusCode |-> 200]>>, err |-> <<>>]}
    \cup {FailedCall("PUT", ErrNotFoundAPI), FailedCall("PUT", ErrServer), NoResponse("PUT")}

\* client.Firewalls.Delete(ctx, id)
DeleteResponses(id) ==
    {[firewall |-> NoFirewall, resp |-> <<[StatusCode |-> 204]>>, err |-> <<>>]}
    \cup {FailedCall("DELETE", ErrNotFoundBare), FailedCall("DELETE", ErrNotFoundAPI),
          FailedCall("DELETE", ErrServer), NoResponse("DELETE")}

\* the StatusCode of a response, 0 when there is none
StatusOf(r) == IF r.resp = <<>> THEN 0 ELSE r.resp[1].StatusCode

----------------------------------------------------------------------------
(* The request builder.                                                     *)

\* strconv.Atoi on the droplet ID strings of the configurations drawn
Atoi(str) ==
    CASE str = "1" -> [i |-> 1, err |-> <<>>]
      [] str = "2" -> [i |-> 2, err |-> <<>>]
      [] str = "3" -> [i |-> 3, err |-> <<>>]
      [] OTHER -> [i |-> 0,
                   err |-> <<"strconv.Atoi:", "parsing", str, "invalid", "syntax">>]

\* the loop over droplet_ids in firewallRequest
RECURSIVE AtoiAll(_, _)
AtoiAll(ids, droplets) ==
    IF ids = <<>> THEN [droplets |-> droplets, err |-> <<>>]
    ELSE LET r == Atoi(Head(ids)) IN
         IF r.err # <<>> THEN [droplets |-> <<>>, err |-> r.err]
         ELSE AtoiAll(Tail(ids), Append(droplets, r.i))

expandFirewallInboundRules(rd) ==
    [n \in 1..Len(rd.inbound_rule) |->
        LET rule == rd.inbound_rule[n] IN
        [Protocol  |-> rule.protocol,
         PortRange |-> rule.port_range,
         Sources   |-> [Addresses        |-> rule.source_addresses,
                        Tags             |-> rule.source_tags,
                        DropletIDs       |-> rule.source_droplet_ids,
                        LoadBalancerUIDs |-> rule.source_load_balancer_uids]]]

expandFirewallOutboundRules(rd) ==
    [n \in 1..Len(rd.outbound_rule) |->
        LET rule == rd.outbound_rule[n] IN
        [Protocol     |-> rule.protocol,
         PortRange    |-> rule.port_range,
         Destinations |-> [Addresses        |-> rule.destination_addresses,
                           Tags             |-> rule.destination_tags,
                           DropletIDs       |-> rule.destination_droplet_ids,
                           LoadBalancerUIDs |-> rule.destination_load_balancer_uids]]]

\* firewallRequest(d, client): the request and the error
firewallRequest(rd) ==
    LET conv == AtoiAll(rd.droplet_ids, <<>>) IN
    IF conv.err # <<>> THEN [opts |-> NoFirewall, err |-> conv.err]
    ELSE [opts |-> [Name          |-> rd.name,
                    DropletIDs    |-> conv.droplets,
                    Tags          |-> rd.tags,
                    InboundRules  |-> expandFirewallInboundRules(rd),
                    OutboundRules |-> expandFirewallOutboundRules(rd)],
          err |-> <<>>]

firewallPendingChanges(rd, firewall) ==
    [n \in 1..Len(firewall.PendingChanges) |->
        [droplet_id |-> firewall.PendingChanges[n].DropletID,
         removing   |-> firewall.PendingChanges[n].Removing,
         status     |-> firewall.PendingChanges[n].Status]]

----------------------------------------------------------------------------
(* The handlers, as functions of the data and of what the API answers.      *)

\* the part of resourceDigitalOceanFirewallRead after a Get that succeeded:
\* every (data, error) it can end with. The errors of the Sets of the scalar
\* fields are dropped; those of the two rule lists are returned.
ReadStore(rd, firewall) ==
    LET d1 == Set(rd, "status", "string", firewall.Status)
        d2 == Set(d1, "create_at", "string", firewall.Created)
        d3 == Set(d2, "pending_changes", "[]interface{}",
                  firewallPendingChanges(d2, firewall))
        d4 == Set(d3, "name", "string", firewall.Name)
        d5 == Set(d4, "droplet_ids", "[]int", firewall.DropletIDs)
        d6 == Set(d5, "tags", "[]string", firewall.Tags)
        SetOutbound(d7) ==
            {IF SetFails("outbound_rule", "[]interface{}", outb)
             THEN [d |-> d7,
                   err |-> <<"[DEBUG]", "Error", "setting", "Firewall",
                             "outbound_rule", "error:">>]
             ELSE [d |-> Set(d7, "outbound_rule", "[]interface{}", outb), err |-> <<>>] :
                outb \in flattenFirewallOutboundRules(d7, firewall.OutboundRules)}
    IN  UNION
        {IF SetFails("inbound_rule", "[]interface{}", inb)
         THEN {[d |-> d6,
                err |-> <<"[DEBUG]", "Error", "setting", "Firewall",
                          "inbound_rule", "error:">>]}
         ELSE SetOutbound(Set(d6, "inbound_rule", "[]interface{}", inb)) :
            inb \in flattenFirewallInboundRules(d6, firewall.InboundRules)}

\* Read taking every failed Get for "the firewall no longer exists": the
\* identity is cleared before the error is returned
resourceDigitalOceanFirewallReadClearsId(rd, g) ==
    IF g.err # <<>>
    THEN IF g.resp # <<>> /\ g.resp[1].StatusCode = StatusNotFound
         THEN {[d |-> SetId(rd, ""), err |-> <<>>]}
         ELSE {[d |-> SetId(rd, ""),
                err |-> Errorf(<<"Error", "retrieving", "firewall:">>, g.err)]}
    ELSE ReadStore(rd, g.firewall)

\* resourceDigitalOceanFirewallRead given the answer g of Firewalls.Get:
\* every (data, error) it can end with
resourceDigitalOceanFirewallRead(rd, g) ==
    IF g.err # <<>>
    THEN IF g.resp # <<>> /\ g.resp[1].StatusCode = StatusNotFound
         THEN {[d |-> SetId(rd, ""), err |-> <<>>]}
         ELSE {[d |-> rd, err |-> Errorf(<<"Error", "retrieving", "firewall:">>, g.err)]}
    ELSE ReadStore(rd, g.firewall)

\* the record of a handler's return; g is the answer to the Get or Delete the
\* handler made (NoCall when it returned before making one)
Returned(op, err, exists, created, g) ==
    [op |-> op, err |-> err, exists |-> exists, created |-> created,
     status |-> StatusOf(g), getOk |-> (g.err = <<>> /\ g.resp # <<>> /\ StatusOf(g) = 200),
     firewall |-> g.firewall]

NoCall == [firewall |-> NoFirewall, resp |-> <<>>, err |-> <<>>]

\* helper/schema dispatches on the identity: Create for a resource that has
\* none, Read, Update, Delete and Exists for a resource that has one
Create ==
    /\ d.id = ""
    /\ LET req == firewallRequest(d) IN
       IF req.err # <<>>
       THEN /\ d' = d
            /\ ret' = Returned("Create", Errorf(<<"Error", "in", "firewall", "request:">>, req.err),
                               FALSE, "", NoCall)
       ELSE \E c \in CreateResponses(req.opts) :
            IF c.err # <<>>
            THEN /\ d' = d
                 /\ ret' = Returned("Create", Errorf(<<"Error", "creating", "firewall:">>, c.err),
                                    FALSE, "", NoCall)
            ELSE \E g \in GetResponses(c.firewall.ID) :
                 \E r \in resourceDigitalOceanFirewallRead(SetId(d, c.firewall.ID), g) :
                    /\ d' = r.d
                    /\ ret' = Returned("Create", r.err, FALSE, c.firewall.ID, g)
    /\ UNCHANGED <<args, out, pc>>

Read ==
    /\ d.id # ""
    /\ \E g \in GetResponses(d.id) :
       \E r \in resourceDigitalOceanFirewallRead(d, g) :
          /\ d' = r.d
          /\ ret' = Returned("Read", r.err, FALSE, "", g)
    /\ UNCHANGED <<args, out, pc>>

Update ==
    /\ d.id # ""
    /\ LET req == firewallRequest(d) IN
       IF req.err # <<>>
       THEN /\ d' = d
            /\ ret' = Returned("Update", Errorf(<<"Error", "in", "firewall", "request:">>, req.err),
                               FALSE, "", NoCall)
       ELSE \E u \in UpdateResponses(d.id, req.opts) :
            IF u.err # <<>>
            THEN /\ d' = d
                 /\ ret' = Returned("Update", Errorf(<<"Error", "updating", "firewall:">>, u.err),
                                    FALSE, "", NoCall)
            ELSE \E g \in GetResponses(d.id) :
                 \E r \in resourceDigitalOceanFirewallRead(d, g) :
                    /\ d' = r.d
                    /\ ret' = Returned("Update", r.err, FALSE, "", g)
    /\ UNCHANGED <<args, out, pc>>

Delete ==
    /\ d.id # ""
    /\ \E x \in DeleteResponses(d.id) :
          /\ d' = d
          /\ ret' = Returned("Delete",
                             IF x.err # <<>> /\ Contains(x.err, <<"404", "Not", "Found">>)
                             THEN <<>>
                             ELSE IF x.err # <<>>
                                  THEN Errorf(<<"Error", "deleting", "firewall:">>, x.err)
                                  ELSE <<>>,
                             FALSE, "", x)
    /\ UNCHANGED <<args, out, pc>>

Exists ==
    /\ d.id # ""
    /\ \E g \in GetResponses(d.id) :
          IF g.err # <<>>
          THEN IF g.resp # <<>> /\ g.resp[1].StatusCode = StatusNotFound
               THEN /\ d' = SetId(d, "")
                    /\ ret' = Returned("Exists", <<>>, FALSE, "", g)
               ELSE /\ d' = d
                    /\ ret' = Returned("Exists",
                                       Errorf(<<"Error", "retrieving", "firewall:">>, g.err),
                                       FALSE, "", g)
          ELSE /\ d' = d
               /\ ret' = Returned("Exists", <<>>, TRUE, "", g)
    /\ UNCHANGED <<args, out, pc>>

\* a declared resource not yet created (with droplet IDs that parse, or
\* not), or a resource just imported (ImportStatePassthrough: the ID alone)
Init ==
    /\ ret = NoReturn
    /\ args = <<>>
    /\ out = <<>>
    /\ pc = "crud"
    /\ \/ \E ids \in {<<"2", "1">>, <<"1", "x">>} :
             d = [EmptyData EXCEPT !.name = "web", !.droplet_ids = ids,
                                   !.tags = <<"b", "a">>]
       \/ d = [EmptyData EXCEPT !.id = "fw-1"]

Next == Create \/ Read \/ Update \/ Delete \/ Exists

Spec == Init /\ [][Next]_vars

----------------------------------------------------------------------------
(* The rules drawn as inputs.                                               *)

RemoteInboundRules ==
    {[Protocol |-> k[1], PortRange |-> k[2], Sources |-> p] : k \in Keys, p \in Parties}

RemoteOutboundRules ==
    {[Protocol |-> k[1], PortRange |-> k[2], Destinations |-> p] : k \in Keys, p \in Parties}

\* local rules as d.Get("inbound_rule") / d.Get("outbound_rule") returns them
LocalInboundRules == {InboundRawRule(r) : r \in RemoteInboundRules}

LocalOutboundRules == {OutboundRawRule(r) : r \in RemoteOutboundRules}

IntListKeys == {"source_droplet_ids", "destination_droplet_ids"}

StringListKeys ==
    {"source_tags", "source_addresses", "source_load_balancer_uids",
     "destination_tags", "destination_addresses", "destination_load_balancer_uids"}

----------------------------------------------------------------------------
(* The list reconcilers called on their own.                                *)

InitLists ==
    /\ d = EmptyData
    /\ ret = NoReturn
    /\ out = <<>>
    /\ pc = "start"
    /\ \/ \E key \in IntListKeys :
            \E l, r \in SeqsUpTo(DropletIDValues, MaxList) :
                args = [key |-> key, local |-> (key :> l), remote |-> (key :> r)]
       \/ \E key \in StringListKeys :
            \E l, r \in SeqsUpTo(StringValues, MaxList) :
                args = [key |-> key, local |-> (key :> l), remote |-> (key :> r)]

MatchIntLists ==
    /\ pc = "start"
    /\ args.key \in IntListKeys
    /\ \E o \in matchFirewallIntLists(args.key, args.local, args.remote) : out' = o
    /\ pc' = "int"
    /\ UNCHANGED <<d, ret, args>>

MatchStringLists ==
    /\ pc = "start"
    /\ args.key \in StringListKeys
    /\ \E o \in matchFirewallStringLists(args.key, args.local, args.remote) : out' = o
    /\ pc' = "string"
    /\ UNCHANGED <<d, ret, args>>

NextLists == MatchIntLists \/ MatchStringLists

SpecLists == InitLists /\ [][NextLists]_vars

----------------------------------------------------------------------------
(* The rule reconcilers called on their own: d holds the local rules.       *)

InitRules ==
    /\ ret = NoReturn
    /\ args = <<>>
    /\ out = <<>>
    /\ pc = "start"
    /\ \/ \E l \in SeqsUpTo(LocalInboundRules, MaxRules) :
            d = [EmptyData EXCEPT !.inbound_rule = l]
       \/ \E l \in SeqsUpTo(LocalOutboundRules, MaxRules) :
            d = [EmptyData EXCEPT !.outbound_rule = l]

FlattenInbound ==
    /\ pc = "start"
    /\ d.outbound_rule = <<>>
    /\ \E rules \in SeqsUpTo(RemoteInboundRules, MaxRules) :
         /\ args' = rules
         /\ \E o \in flattenFirewallInboundRules(d, rules) : out' = o
    /\ pc' = "inbound"
    /\ UNCHANGED <<d, ret>>

FlattenOutbound ==
    /\ pc = "start"
    /\ d.inbound_rule = <<>>
    /\ \E rules \in SeqsUpTo(RemoteOutboundRules, MaxRules) :
         /\ args' = rules
         /\ \E o \in flattenFirewallOutboundRules(d, rules) : out' = o
    /\ pc' = "outbound"
    /\ UNCHANGED <<d, ret>>

\* the list just returned is stored (d.Set) and the same remote rules are
\* reconciled against it again, as the next Read of an unchanged firewall does
FlattenInboundAgain ==
    /\ pc = "inbound"
    /\ d' = Set(d, "inbound_rule", "[]interface{}", out)
    /\ \E o \in flattenFirewallInboundRules(d', args) : out' = o
    /\ pc' = "inbound_again"
    /\ UNCHANGED <<ret, args>>

FlattenOutboundAgain ==
    /\ pc = "outbound"
    /\ d' = Set(d, "outbound_rule", "[]interface{}", out)
    /\ \E o \in flattenFirewallOutboundRules(d', args) : out' = o
    /\ pc' = "outbound_again"
    /\ UNCHANGED <<ret, args>>

NextRules ==
    FlattenInbound \/ FlattenOutbound \/ FlattenInboundAgain \/ FlattenOutboundAgain

SpecRules == InitRules /\ [][NextRules]_vars

----------------------------------------------------------------------------
(* Properties of the list reconcilers (under SpecLists).                    *)

NoRepeat(s) == \A i, j \in 1..Len(s) : i # j => s[i] # s[j]

\* the index of the first occurrence of v in s
FirstIndex(s, v) == CHOOSE i \in 1..Len(s) : s[i] = v /\ \A j \in 1..(i - 1) : s[j] # v

\* C2: the list reconciler returns each distinct remote value exactly once
\* and nothing else; the values also present locally come first, in the
\* order of their first local occurrence, and the remote-only values follow.
C2_ListReconciled ==
    pc \in {"int", "string"} =>
        LET l == args.local[args.key]
            r == args.remote[args.key]
        IN  /\ Range(out) = Range(r)
            /\ NoRepeat(out)
            /\ \A i, j \in 1..Len(out) :
                  (out[i] \in Range(l) /\ out[j] \notin Range(l)) => i < j
            /\ \A i, j \in 1..Len(out) :
                  (i < j /\ out[i] \in Range(l) /\ out[j] \in Range(l))
                      => FirstIndex(l, out[i]) < FirstIndex(l, out[j])

\* local [a,b,c] with remote {a,c} has given [a,c]
C2_Witness ==
    /\ pc = "string"
    /\ args.local[args.key] = <<"a", "b", "c">>
    /\ Range(args.remote[args.key]) = {"a", "c"}
    /\ out = <<"a", "c">>

----------------------------------------------------------------------------
(* Properties of the rule reconcilers (under SpecRules).                    *)

InboundDone == pc \in {"inbound", "inbound_again"}

OutboundDone == pc \in {"outbound", "outbound_again"}

Flattened == InboundDone \/ OutboundDone

\* the local rules the last reconciliation started from
LocalRules == IF InboundDone THEN d.inbound_rule ELSE d.outbound_rule

\* the remote rules as the records the reconciler builds from them
RemoteRaw ==
    IF InboundDone THEN [i \in 1..Len(args) |-> InboundRawRule(args[i])]
    ELSE [i \in 1..Len(args) |-> OutboundRawRule(args[i])]

\* the (protocol, port range) pairs of a list of rule records
PairsOf(rules) == [i \in 1..Len(rules) |-> <<rules[i].protocol, rules[i].port_range>>]

RemotePairs == [i \in 1..Len(args) |-> <<args[i].Protocol, args[i].PortRange>>]

\* the party lists of a rule record, whichever kind it is
PartyLists(rule) ==
    IF "source_tags" \in DOMAIN rule
    THEN <<rule.source_droplet_ids, rule.source_tags,
           rule.source_addresses, rule.source_load_balancer_uids>>
    ELSE <<rule.destination_droplet_ids, rule.destination_tags,
           rule.destination_addresses, rule.destination_load_balancer_uids>>

\* no rule list key and no value within a party list occurs twice
NoRepeatedKeyOrValue(rules) ==
    /\ NoRepeat(PairsOf(rules))
    /\ \A i \in 1..Len(rules) : \A n \in 1..4 : NoRepeat(PartyLists(rules[i])[n])

\* C1 as stated: the pairs of the result are exactly the pairs of the remote
\* list and no pair occurs in the result more than once, whatever the lists.
C1_PairsExactlyOnce ==
    Flattened =>
        /\ Range(PairsOf(out)) = Range(RemotePairs)
        /\ NoRepeat(PairsOf(out))

\* C1 (amended): every remote pair occurs in the result and no other pair
\* does; no pair occurs twice provided the local list is not empty or the
\* remote list repeats no key (an empty local list returns the remote list
\* as it is, repeats included).
C1_PairsOfRemote ==
    Flattened =>
        /\ Range(PairsOf(out)) = Range(RemotePairs)
        /\ (LocalRules # <<>> \/ NoRepeat(RemotePairs)) => NoRepeat(PairsOf(out))

\* a remote list that repeats a key has been collapsed against a local rule
C1_Witness ==
    /\ Flattened
    /\ LocalRules # <<>>
    /\ Len(args) = 2
    /\ ~NoRepeat(RemotePairs)
    /\ Len(out) = 1

\* local and remote are the same rule list X
LocalIsRemote == Flattened /\ LocalRules = RemoteRaw

\* C3 as stated: reconciling any X against itself returns the pairs of X
\* and, for each rule, the party lists it has in X.
C3_Idempotent ==
    LocalIsRemote =>
        /\ Range(PairsOf(out)) = Range(PairsOf(LocalRules))
        /\ Range(out) \subseteq Range(LocalRules)

\* C3 (amended): the same, for every X that repeats no key and no value
\* within a party list.
C3_IdempotentNoRepeats ==
    (LocalIsRemote /\ NoRepeatedKeyOrValue(LocalRules)) =>
        /\ Range(PairsOf(out)) = Range(PairsOf(LocalRules))
        /\ Range(out) \subseteq Range(LocalRules)

\* a two-rule X without repeats has been reconciled against itself
C3_Witness ==
    /\ LocalIsRemote
    /\ NoRepeatedKeyOrValue(LocalRules)
    /\ Len(LocalRules) = 2
    /\ out = LocalRules

\* C8: with both lists non-empty, the rules whose key is local and remote
\* appear in the order of the local list and before every remote-only rule;
\* a local rule whose key is not remote does not appear.
C8_LocalOrderFirst ==
    (Flattened /\ LocalRules # <<>> /\ args # <<>>) =>
        LET lp == PairsOf(LocalRules)
            op == PairsOf(out)
        IN  /\ \A k \in Range(lp) \cap Range(RemotePairs) : k \in Range(op)
            /\ \A k \in Range(lp) \ Range(RemotePairs) : k \notin Range(op)
            /\ \A i, j \in 1..Len(op) :
                  (op[i] \in Range(lp) /\ op[j] \notin Range(lp)) => i < j
            /\ \A i, j \in 1..Len(op) :
                  (i < j /\ op[i] \in Range(lp) /\ op[j] \in Range(lp))
                      => FirstIndex(lp, op[i]) < FirstIndex(lp, op[j])

\* a local-only rule was dropped, the matched rule comes first and a
\* remote-only rule, listed first remotely, follows it
C8_Witness ==
    /\ Flattened
    /\ Len(LocalRules) = 2 /\ Len(args) = 2 /\ Len(out) = 2
    /\ PairsOf(LocalRules)[1] \notin Range(RemotePairs)
    /\ PairsOf(out)[1] = PairsOf(LocalRules)[2]
    /\ PairsOf(out)[1] = RemotePairs[2]
    /\ PairsOf(out)[2] = RemotePairs[1]

\* the party lists of o are what the list reconcilers return for the local
\* rule l and the remote rule r
ListsReconciled(o, l, r) ==
    IF "source_tags" \in DOMAIN l
    THEN /\ o.source_droplet_ids \in matchFirewallIntLists("source_droplet_ids", l, r)
         /\ \A key \in {"source_tags", "source_addresses", "source_load_balancer_uids"} :
               o[key] \in matchFirewallStringLists(key, l, r)
    ELSE /\ o.destination_droplet_ids
               \in matchFirewallIntLists("destination_droplet_ids", l, r)
         /\ \A key \in {"destination_tags", "destination_addresses",
                        "destination_load_balancer_uids"} :
               o[key] \in matchFirewallStringLists(key, l, r)

\* C9: a local rule with port range "all" and the remote rule of the same
\* protocol with port range "0" are reconciled as one rule: the stored rule
\* differs from the declared one only by a port range the diff suppression
\* reports unchanged, it carries the party lists in the local order, and it
\* stays ahead of the local rules declared after it.
C9_AllIsZero ==
    Flattened =>
        \A i \in 1..Len(LocalRules) : \A j \in 1..Len(args) :
            LET l == LocalRules[i]
                r == RemoteRaw[j]
            IN  ( /\ l.port_range = "all"
                  /\ r.port_range = "0"
                  /\ r.protocol = l.protocol
                  /\ \A n \in 1..Len(LocalRules) : n # i => LocalRules[n].protocol # l.protocol
                  /\ \A n \in 1..Len(args) : n # j => RemoteRaw[n].protocol # l.protocol )
                =>
                \E k \in 1..Len(out) :
                    /\ out[k].protocol = l.protocol
                    /\ DiffSuppressFunc("port_range", out[k].port_range, l.port_range, d)
                    /\ ListsReconciled(out[k], l, r)
                    /\ \A n \in (i + 1)..Len(LocalRules) :
                          \A m \in 1..Len(out) :
                              PairsOf(out)[m] = PairsOf(LocalRules)[n] => k < m

\* C10 as stated: reconciling the stored result against the same remote
\* rules again returns the stored result, rule for rule and value for
\* value, for any local and any remote rules.
C10_Stable ==
    pc \in {"inbound_again", "outbound_again"} => out = LocalRules

\* C10 (amended): the same, provided the remote rules repeat no key and no
\* value within a party list.
C10_StableNoRepeats ==
    (pc \in {"inbound_again", "outbound_again"} /\ NoRepeatedKeyOrValue(RemoteRaw))
        => out = LocalRules

\* the second reconciliation has returned the stored two-rule list, whose
\* order is not the remote order
C10_Witness ==
    /\ pc \in {"inbound_again", "outbound_again"}
    /\ NoRepeatedKeyOrValue(RemoteRaw)
    /\ Len(args) = 2
    /\ out = LocalRules
    /\ PairsOf(out) # RemotePairs
    /\ \E i \in 1..2 : PartyLists(out[i]) # PartyLists(RemoteRaw[3 - i])

----------------------------------------------------------------------------
(* Properties of the handlers (under Spec).                                 *)

\* C4 as stated: a handler that returns an error leaves the local state
\* (identity and fields) exactly as it was.
C4_ErrorLeavesState == [][ret'.err # <<>> => d' = d]_vars

\* C4 (amended): a handler that returns an error leaves every stored field
\* as it was, and the identity too, except that Create, once the remote
\* Create has succeeded, has recorded the new ID when the Read after it fails.
C4_ErrorLeavesFields ==
    [][ret'.err # <<>> =>
          \/ d' = d
          \/ /\ ret'.op = "Create"
             /\ ret'.created # ""
             /\ d' = [d EXCEPT !.id = ret'.created]]_vars

\* Create has returned the error of its Read with the new ID recorded
C4_Witness ==
    /\ ret.op = "Create"
    /\ ret.err # <<>>
    /\ ret.created = "fw-2"
    /\ d.id = "fw-2"

\* C5: when the remote answers not-found, Read returns no error and clears
\* the identity, Exists returns false without error and clears the identity,
\* and Delete returns no error.
C5_NotFoundAbsorbed ==
    /\ (ret.op = "Read" /\ ret.status = StatusNotFound) => (ret.err = <<>> /\ d.id = "")
    /\ (ret.op = "Exists" /\ ret.status = StatusNotFound)
           => (ret.err = <<>> /\ ~ret.exists /\ d.id = "")
    /\ (ret.op = "Delete" /\ ret.status = StatusNotFound) => ret.err = <<>>

\* C6 as stated: when Create returns without error the identity is set and
\* is the ID the remote Create returned.
C6_CreatedIsPresent ==
    (ret.op = "Create" /\ ret.err = <<>>) => (d.id # "" /\ d.id = ret.created)

\* C6 (amended): when Create returns without error, either the Get of its
\* Read succeeded and the identity is the ID the remote Create returned, or
\* that Get reported not-found and the identity is cleared.
C6_CreatedOrGone ==
    (ret.op = "Create" /\ ret.err = <<>>) =>
        IF ret.status = StatusNotFound
        THEN d.id = ""
        ELSE ret.getOk /\ d.id # "" /\ d.id = ret.created

\* Create has returned without error after a Get that succeeded
C6_Witness ==
    /\ ret.op = "Create"
    /\ ret.err = <<>>
    /\ ret.getOk
    /\ d.id = "fw-2"

\* C7: after a Read whose Get succeeded, status, created_at, name, droplet
\* IDs and tags hold the values of the firewall that Get returned.
C7_FieldsAreRemote ==
    (ret.op \in {"Read", "Create", "Update"} /\ ret.getOk /\ ret.err = <<>>) =>
        /\ d.status = ret.firewall.Status
        /\ d.name = ret.firewall.Name
        /\ d.tags = ret.firewall.Tags
        /\ d.created_at = ret.firewall.Created
        /\ AtoiAll(d.droplet_ids, <<>>) = [droplets |-> ret.firewall.DropletIDs, err |-> <<>>]

====
